---------------------------- MODULE Spec2Model ----------------------------
(***************************************************************************)
(* A model of backend/app.py: the e-mail session gate (login, logout,     *)
(* admin allow/revoke, _load_session) and the /api/upload pipeline        *)
(* (column locator, cell URL extractor, URL normalizer, concurrent        *)
(* fetcher under an asyncio.Semaphore, archive assembler).                *)
(*                                                                         *)
(* Strings.  A Python str is modelled as a sequence of symbols.  A symbol *)
(* stands for a fixed, non-empty run of characters; the delimiters the    *)
(* code looks for ("://", "/", "?", "#", "&", "=", "\"", "(", " ", the    *)
(* digits, ...) are symbols of their own and no other symbol contains     *)
(* one, so two strings are equal exactly when their symbol sequences are. *)
(* Character-level facts about a word symbol (its lower-case form, its    *)
(* percent-decoding, its NFKD/ASCII form, whether it contains a given     *)
(* host name) are given by the small tables below.                        *)
(***************************************************************************)
EXTENDS Integers, Sequences, FiniteSets, Bags, TLC

(* ----------------------------- str helpers ----------------------------- *)

\* str.lower() on one symbol
LowerSym(c) ==
    CASE c = "HTTPS" -> "https"
      [] c = "Drive.Google.com" -> "drive.google.com"
      [] c = "WWW.Dropbox.com" -> "www.dropbox.com"
      [] c = "Final" -> "final"
      [] c = "FINAL" -> "final"
      [] c = "Image" -> "image"
      [] c = "Photo" -> "photo"
      [] c = "HYPERLINK" -> "hyperlink"
      [] c = "Hyperlink" -> "hyperlink"
      [] c = "A" -> "a"
      [] c = "B" -> "b"
      [] c = "ID" -> "id"
      [] c = ".XLSX" -> ".xlsx"
      [] OTHER -> c

Lower(s) == [i \in 1..Len(s) |-> LowerSym(s[i])]

IsSpace(c) == c \in {" ", "\t", "\n"}

RECURSIVE LStrip(_)
LStrip(s) == IF s # <<>> /\ IsSpace(Head(s)) THEN LStrip(Tail(s)) ELSE s

RECURSIVE RStrip(_)
RStrip(s) ==
    IF s # <<>> /\ IsSpace(s[Len(s)]) THEN RStrip(SubSeq(s, 1, Len(s) - 1)) ELSE s

\* str.strip()
Strip(s) == RStrip(LStrip(s))

\* str.startswith(prefix)
StartsWith(s, pre) == Len(s) >= Len(pre) /\ SubSeq(s, 1, Len(pre)) = pre

\* index of the first symbol of s that lies in set D, or 0
RECURSIVE FindFrom(_, _, _)
FindFrom(s, D, i) ==
    IF i > Len(s) THEN 0 ELSE IF s[i] \in D THEN i ELSE FindFrom(s, D, i + 1)

Find(s, D) == FindFrom(s, D, 1)

\* str.split(sep): the pieces between the occurrences of symbol sep
RECURSIVE Split(_, _)
Split(s, sep) ==
    LET i == Find(s, {sep})
    IN  IF i = 0 THEN <<s>>
        ELSE <<SubSeq(s, 1, i - 1)>> \o Split(SubSeq(s, i + 1, Len(s)), sep)

\* sep.join(parts)
RECURSIVE Join(_, _)
Join(parts, sep) ==
    IF parts = <<>> THEN <<>>
    ELSE IF Len(parts) = 1 THEN parts[1]
    ELSE parts[1] \o <<sep>> \o Join(Tail(parts), sep)

\* x in list
InSeq(x, q) == \E i \in 1..Len(q) : q[i] = x

(* --------------------------- urllib.parse ------------------------------ *)

\* urllib.parse.urlsplit/urlparse: scheme lower-cased, netloc up to the first
\* "/", "?" or "#", then the fragment cut at the first "#" and the query at the
\* first "?".  err models the ValueError("Invalid IPv6 URL") of an unbalanced
\* bracket in the netloc.
urlparse(s) ==
    LET hasScheme == Len(s) >= 2 /\ s[2] = "://"
        rest == IF hasScheme THEN SubSeq(s, 3, Len(s)) ELSE s
        e == Find(rest, {"/", "?", "#"})
        netloc == IF ~hasScheme THEN <<>>
                  ELSE IF e = 0 THEN rest ELSE SubSeq(rest, 1, e - 1)
        after == IF ~hasScheme THEN rest
                 ELSE IF e = 0 THEN <<>> ELSE SubSeq(rest, e, Len(rest))
        f == Find(after, {"#"})
        fragment == IF f = 0 THEN <<>> ELSE SubSeq(after, f + 1, Len(after))
        noFrag == IF f = 0 THEN after ELSE SubSeq(after, 1, f - 1)
        q == Find(noFrag, {"?"})
        query == IF q = 0 THEN <<>> ELSE SubSeq(noFrag, q + 1, Len(noFrag))
        path == IF q = 0 THEN noFrag ELSE SubSeq(noFrag, 1, q - 1)
    IN  [err |-> InSeq("[", netloc) # InSeq("]", netloc),
         scheme |-> IF hasScheme THEN LowerSym(s[1]) ELSE "",
         netloc |-> netloc, path |-> path, query |-> query, fragment |-> fragment]

\* ParseResult.geturl() (urlunsplit): an empty query or fragment loses its "?"
\* or "#", and the scheme comes back lower-cased.
geturl(p) ==
    LET path == IF p.netloc # <<>> /\ p.path # <<>> /\ Head(p.path) # "/"
                THEN <<"/">> \o p.path ELSE p.path
        base == IF p.scheme # "" THEN <<p.scheme, "://">> \o p.netloc \o path
                ELSE path
        withQ == IF p.query # <<>> THEN base \o <<"?">> \o p.query ELSE base
    IN  IF p.fragment # <<>> THEN withQ \o <<"#">> \o p.fragment ELSE withQ

\* urllib.parse.unquote after replace('+', ' '), on one symbol
UnquoteSym(c) ==
    CASE c = "+" -> " "
      [] c = "%20" -> " "
      [] OTHER -> c

Unquote(s) == [i \in 1..Len(s) |-> UnquoteSym(s[i])]

\* dict lookup in an ordered dict kept as a sequence of [k, v] items
HasKey(d, k) == \E i \in 1..Len(d) : d[i].k = k

Get(d, k) == d[CHOOSE i \in 1..Len(d) : d[i].k = k].v

\* dict.pop(k, None)
Pop(d, k) == SelectSeq(d, LAMBDA it : it.k # k)

\* d.setdefault(k, []).append(v), keeping insertion order of the keys
DictAppend(d, k, v) ==
    IF HasKey(d, k)
    THEN [i \in 1..Len(d) |-> IF d[i].k = k THEN [k |-> k, v |-> Append(d[i].v, v)]
                              ELSE d[i]]
    ELSE Append(d, [k |-> k, v |-> <<v>>])

\* parse_qsl's loop over query.split('&') with keep_blank_values=False: a piece
\* without "=" or with an empty value is dropped; names and values are decoded
RECURSIVE ParseQsl(_, _)
ParseQsl(pieces, d) ==
    IF pieces = <<>> THEN d
    ELSE LET nv == Head(pieces)
             i == Find(nv, {"="})
         IN  IF nv = <<>> \/ i = 0 \/ i = Len(nv) THEN ParseQsl(Tail(pieces), d)
             ELSE ParseQsl(Tail(pieces),
                           DictAppend(d, Unquote(SubSeq(nv, 1, i - 1)),
                                      Unquote(SubSeq(nv, i + 1, Len(nv)))))

\* urllib.parse.parse_qs
parse_qs(query) == IF query = <<>> THEN <<>> ELSE ParseQsl(Split(query, "&"), <<>>)

(* --------------------------- URL normalizer ---------------------------- *)

TRACKING_KEYS ==
    << <<"utm_source">>, <<"utm_medium">>, <<"utm_campaign">>, <<"utm_term">>,
       <<"utm_content">>, <<"fbclid">>, <<"gclid">> >>

RECURSIVE PopAll(_, _)
PopAll(d, keys) == IF keys = <<>> THEN d ELSE PopAll(Pop(d, Head(keys)), Tail(keys))

\* "&".join(f"{k}={v[0]}" for k, v in qs.items())
JoinFirstValues(qs) ==
    Join([i \in 1..Len(qs) |-> qs[i].k \o <<"=">> \o qs[i].v[1]], "&")

strip_tracking_params(url) ==
    LET p == urlparse(url)
    IN  IF p.err THEN url
        ELSE IF p.query = <<>> THEN url
        ELSE geturl([p EXCEPT !.query =
                         JoinFirstValues(PopAll(parse_qs(p.query), TRACKING_KEYS))])

\* the de-duplication loop of drive_fetch_plan: first occurrences, in order
RECURSIVE Uniq(_, _)
Uniq(cands, uniq) ==
    IF cands = <<>> THEN uniq
    ELSE Uniq(Tail(cands),
              IF InSeq(Head(cands), uniq) THEN uniq ELSE Append(uniq, Head(cands)))

drive_fetch_plan(parsed, original_qs) ==
    LET parts == Split(parsed.path, "/")
        file_id ==
            IF StartsWith(parsed.path, <<"/", "file", "/", "d", "/">>)
            THEN (IF Len(parts) > 3 THEN parts[4] ELSE <<>>)
            ELSE IF StartsWith(parsed.path, <<"/", "open">>) /\ HasKey(original_qs, <<"id">>)
            THEN Get(original_qs, <<"id">>)[1]
            ELSE IF StartsWith(parsed.path, <<"/", "uc">>) /\ HasKey(original_qs, <<"id">>)
            THEN Get(original_qs, <<"id">>)[1]
            ELSE <<>>
        rk == IF HasKey(original_qs, <<"resourcekey">>)
              THEN Get(original_qs, <<"resourcekey">>)[1] ELSE <<>>
        q == <<"export", "=", "download", "&", "id", "=">> \o file_id
             \o (IF rk # <<>> THEN <<"&", "resourcekey", "=">> \o rk ELSE <<>>)
        candidates ==
            <<geturl(parsed)>>
            \o (IF file_id # <<>>
                THEN << <<"https", "://", "drive.google.com", "/", "uc", "?">> \o q >>
                ELSE <<>>)
    IN  Uniq(candidates, <<>>)

\* symbols whose lower-cased text contains the host name looked for
DriveHosts == {"drive.google.com"}

DropboxHosts == {"dropbox.com", "www.dropbox.com"}

\* symbols that end in the characters "dl"
EndsWithDl(c) == c \in {"dl", "rdl"}

Digits == {"0", "1", "2", "5", "9"}

\* "dl=" in query
HasDlParam(query) ==
    \E i \in 1..(Len(query) - 1) : EndsWithDl(query[i]) /\ query[i + 1] = "="

\* re.sub(r"dl=\d", "dl=1", query)
SubDl(query) ==
    [i \in 1..Len(query) |->
        IF i >= 3 /\ query[i] \in Digits /\ query[i - 1] = "=" /\ EndsWithDl(query[i - 2])
        THEN "1" ELSE query[i]]

\* build_fetch_plan: (display, candidates)
build_fetch_plan(raw_url) ==
    LET display == Strip(raw_url)
        p == urlparse(display)
        host == Lower(p.netloc)
        qs == parse_qs(p.query)
        stripped == strip_tracking_params(display)
    IN  IF display = <<>> THEN [display |-> <<>>, candidates |-> <<>>]
        ELSE IF p.err THEN [display |-> display, candidates |-> <<display>>]
        ELSE IF \E i \in 1..Len(host) : host[i] \in DriveHosts
        THEN [display |-> display, candidates |-> drive_fetch_plan(p, qs)]
        ELSE IF \E i \in 1..Len(host) : host[i] \in DropboxHosts
        THEN LET cand == IF HasDlParam(p.query)
                         THEN [p EXCEPT !.query = SubDl(p.query)] ELSE p
             IN  [display |-> display, candidates |-> <<display, geturl(cand)>>]
        ELSE IF stripped # display
        THEN [display |-> display, candidates |-> <<display, stripped>>]
        ELSE [display |-> display, candidates |-> <<display>>]

(* ------------------------------ slugify -------------------------------- *)
\* In the texts given to slugify (workbook base names, sheet titles) every
\* symbol is a single character.

\* unicodedata.normalize("NFKD", c).encode("ascii", "ignore"): the ASCII
\* characters left of one character.  "u00E9" is e with acute accent, "uFB01"
\* the ligature fi, "u65E5" a CJK ideograph.
NfkdAscii(c) ==
    CASE c = "u00E9" -> <<"e">>
      [] c = "uFB01" -> <<"f", "i">>
      [] c = "u65E5" -> <<>>
      [] OTHER -> <<c>>

RECURSIVE AsciiOnly(_)
AsciiOnly(s) == IF s = <<>> THEN <<>> ELSE NfkdAscii(Head(s)) \o AsciiOnly(Tail(s))

\* the ASCII characters outside [A-Za-z0-9._ -]
UnsafeChars == {"/", ":", "?", "#", "&", "=", "(", ")", "\"", "\t", "\n", "[", "]", "+", "*", ","}

\* re.sub(<one or more characters of D>, "_", s)
RECURSIVE SubRuns(_, _)
SubRuns(s, D) ==
    IF s = <<>> THEN <<>>
    ELSE IF Head(s) \in D
    THEN <<"_">> \o SubRuns(LET i == FindFrom(s, {s[j] : j \in 1..Len(s)} \ D, 1)
                            IN  IF i = 0 THEN <<>> ELSE SubSeq(s, i, Len(s)), D)
    ELSE <<Head(s)>> \o SubRuns(Tail(s), D)

\* str.strip(chars)
RECURSIVE StripChars(_, _)
StripChars(s, D) ==
    IF s # <<>> /\ Head(s) \in D THEN StripChars(Tail(s), D)
    ELSE IF s # <<>> /\ s[Len(s)] \in D THEN StripChars(SubSeq(s, 1, Len(s) - 1), D)
    ELSE s

SLUG_MAX_LEN == 70

slugify(text) ==
    LET t1 == AsciiOnly(text)
        t2 == SubRuns(t1, UnsafeChars)
        t3 == SubRuns(t2, {" ", "\t", "\n"})
        t4 == StripChars(SubRuns(t3, {"_"}), {".", "_", " "})
        t5 == IF t4 = <<>> THEN <<"u", "n", "t", "i", "t", "l", "e", "d">> ELSE t4
    IN  SubSeq(t5, 1, IF Len(t5) < SLUG_MAX_LEN THEN Len(t5) ELSE SLUG_MAX_LEN)

(* ------------------------- Cell URL extractor -------------------------- *)
\* A cell is [hyperlink, target, vtype, value]: hyperlink says whether the cell
\* carries a Hyperlink object, target is its target (<<>> for None or ""),
\* vtype is "str", "num" or "none" and value the string of a "str" cell.

EmptyCell == [hyperlink |-> FALSE, target |-> <<>>, vtype |-> "none", value |-> <<>>]

\* re.search(r'HYPERLINK\(\s*"([^"]+)"', s, re.I): group(1) of the leftmost match
\* starting at or after i, or <<>> when there is none
RECURSIVE HyperlinkArg(_, _)
HyperlinkArg(s, i) ==
    IF i + 1 > Len(s) THEN <<>>
    ELSE LET afterParen == SubSeq(s, i + 2, Len(s))
             rest == LStrip(afterParen)
             close == IF rest # <<>> /\ Head(rest) = "\"" THEN Find(Tail(rest), {"\""}) ELSE 0
         IN  IF LowerSym(s[i]) = "hyperlink" /\ s[i + 1] = "(" /\ close > 1
             THEN SubSeq(Tail(rest), 1, close - 1)
             ELSE HyperlinkArg(s, i + 1)

extract_url_from_cell(cell) ==
    LET s == Strip(cell.value)
        m == HyperlinkArg(s, 1)
    IN  IF cell.hyperlink /\ cell.target # <<>> THEN Strip(cell.target)
        ELSE IF cell.vtype # "str" THEN <<>>
        ELSE IF s = <<>> THEN <<>>
        ELSE IF m # <<>> THEN Strip(m)
        ELSE IF Len(s) >= 2 /\ s[1] \in {"http", "https"} /\ s[2] = "://" THEN s
        ELSE <<>>

(* --------------------------- Column locator ---------------------------- *)
\* A worksheet is [title, cells]: cells maps the populated <<row, column>>
\* positions to their cells; every other position reads as an empty cell.

MAX_SCAN_ROWS == 500

CellAt(ws, r, c) == IF <<r, c>> \in DOMAIN ws.cells THEN ws.cells[<<r, c>>] ELSE EmptyCell

Max(S) == CHOOSE x \in S : \A y \in S : y <= x

\* ws.max_row / ws.max_column (1 for an empty sheet)
max_row(ws) == Max({1} \cup {rc[1] : rc \in DOMAIN ws.cells})

max_column(ws) == Max({1} \cup {rc[2] : rc \in DOMAIN ws.cells})

\* symbols whose text starts with the characters "final"
FinalPrefixed == {"final", "finals", "final_image"}

\* isinstance(val, str) and val.strip().lower().startswith("final")
IsFinalHeader(cell) ==
    /\ cell.vtype = "str"
    /\ LET v == Lower(Strip(cell.value)) IN v # <<>> /\ Head(v) \in FinalPrefixed

\* a locator that goes on after a hit and returns the last one
find_final_col_LastHit(ws) ==
    LET max_r == IF max_row(ws) < MAX_SCAN_ROWS THEN max_row(ws) ELSE MAX_SCAN_ROWS
        hits == {rc \in DOMAIN ws.cells : rc[1] <= max_r /\ IsFinalHeader(ws.cells[rc])}
    IN  IF hits = {} THEN <<>>
        ELSE CHOOSE rc \in hits :
                 \A o \in hits : o[1] < rc[1] \/ (o[1] = rc[1] /\ o[2] <= rc[2])

\* a locator that scans every row of the sheet
find_final_col_Unbounded(ws) ==
    LET hits == {rc \in DOMAIN ws.cells : IsFinalHeader(ws.cells[rc])}
    IN  IF hits = {} THEN <<>>
        ELSE CHOOSE rc \in hits :
                 \A o \in hits : rc[1] < o[1] \/ (rc[1] = o[1] /\ rc[2] <= o[2])

\* find_final_col: rows 1..min(max_row, 500) in order, the cells of a row left
\* to right, return at the first hit; <<row, column>>, or <<>> for None.  Only
\* a populated position can hit (an empty cell's value is None), so the first
\* hit of the loops is the row-major least populated hit.
find_final_col(ws) ==
    LET max_r == IF max_row(ws) < MAX_SCAN_ROWS THEN max_row(ws) ELSE MAX_SCAN_ROWS
        hits == {rc \in DOMAIN ws.cells : rc[1] <= max_r /\ IsFinalHeader(ws.cells[rc])}
    IN  IF hits = {} THEN <<>>
        ELSE CHOOSE rc \in hits :
                 \A o \in hits : rc[1] < o[1] \/ (rc[1] = o[1] /\ rc[2] <= o[2])

(* ============================ Session gate ============================= *)

VARIABLES
    ACTIVE_SESSIONS,  \* dict email -> sid
    DYN_ALLOWED,      \* the keys of the allowlist dict (every value is True)
    now,              \* the wall clock, in seconds
    nextSid,          \* the next value uuid4() returns (sids are fresh)
    pending,          \* the login handlers suspended in "await request.json()": a
                      \* bag of the "email" values of the bodies they await
    issued,           \* every session cookie a login has set so far
    ended,            \* the sessions removed so far: [sid, by], by a "logout" or
                      \* a "revoke"
    loginResp         \* the status of the latest response of email_login

authVars == <<ACTIVE_SESSIONS, DYN_ALLOWED, now, nextSid, pending, issued, ended,
              loginResp>>

VARIABLES
    cookie,     \* the session cookie of the upload request
    scenario,   \* the request and its world: the uploaded file [filename, data,
                \* wb] and net, URL -> the outcomes a request of it may have
    pc,         \* where upload_excel stands
    status,     \* the status of its response, 0 before it responds
    sheetIdx,   \* index in wb.sheetnames of the sheet being processed
    plans,      \* the plans of that sheet
    tasks,      \* the fetch_one task of each plan
    sem,        \* free permits of the sheet's asyncio.Semaphore
    results,    \* what asyncio.gather returned
    walkIdx,    \* position of the loop over zip(plans, results)
    seq,        \* the sheet's image counter
    failed,     \* the failure records
    zf,         \* the entries written to the archive, in order
    header,     \* the failure list of the X-Failed-Json response header
    attempts,   \* per sheet, the number of client.get calls issued
    log,        \* per sheet gone through: what was planned and fetched
    reordered   \* some task has returned before a task of an earlier plan

upVars == <<cookie, scenario, pc, status, sheetIdx, plans, tasks, sem, results,
            walkIdx, seq, failed, zf, header, attempts, log, reordered>>

VARIABLES
    arg_url,    \* the raw URL given to build_fetch_plan
    ret_plan,   \* what build_fetch_plan returned: [display, candidates]
    arg_ws,     \* the worksheet given to find_final_col
    ret_loc,    \* what find_final_col returned: <<row, column>>, or <<>> for None
    called      \* the functions that have been called and have returned

fnVars == <<arg_url, ret_plan, arg_ws, ret_loc, called>>

vars == <<authVars, upVars, fnVars>>

SESSION_MAX_AGE == 86400

\* the clock readings of the model: the start, the last second at which a
\* token signed at the start is valid, and the first at which it has expired
Times == {0, SESSION_MAX_AGE, SESSION_MAX_AGE + 1}

MaxSid == 2

MaxPending == 2

Emails == {"a@x.io", "b@x.io"}

\* the "email" values a request body may carry
RawEmails == {" A@X.io ", "b@x.io", "bob"}

\* (payload.get("email") or "").strip().lower()
NormEmail(raw) == IF raw = " A@X.io " THEN "a@x.io" ELSE raw

\* "@" in email
HasAt(email) == email \in {"a@x.io", "b@x.io"}

NoCookie == [email |-> "", sid |-> 0, ts |-> 0, sig |-> "none"]

\* serializer.dumps({"email": email, "sid": sid}) at time t
Token(email, sid, t) == [email |-> email, sid |-> sid, ts |-> t, sig |-> "ok"]

\* the cookies a request may carry: none, one a login has set, or one of those
\* with a signature that does not verify
Presentable == {NoCookie} \cup issued \cup {[k EXCEPT !.sig = "bad"] : k \in issued}

\* serializer.loads(token, max_age=SESSION_MAX_AGE): BadSignature for a
\* signature that does not verify, SignatureExpired for age > max_age
TokenLoads(token, t) == token.sig = "ok" /\ ~(t - token.ts > SESSION_MAX_AGE)

\* a session check that trusts any signed, unexpired token
LoadSessionIn_TrustsToken(token, active, t) ==
    /\ token # NoCookie
    /\ TokenLoads(token, t)
    /\ token.email # "" /\ token.sid # 0

\* _load_session, given the session store and the clock: TRUE when it returns
\* the session {"email", "sid"} of the token, FALSE when it returns None
LoadSessionIn(token, active, t) ==
    /\ token # NoCookie
    /\ TokenLoads(token, t)
    /\ token.email # "" /\ token.sid # 0
    /\ token.email \in DOMAIN active /\ active[token.email] = token.sid

_load_session(token) == LoadSessionIn(token, ACTIVE_SESSIONS, now)

\* a dependency that admits any signed, unexpired cookie
require_user_TrustsToken(token) ==
    IF token # NoCookie /\ TokenLoads(token, now) THEN token.email ELSE ""

\* require_user: the e-mail of the session, or HTTPException(401) as ""
require_user(token) == IF _load_session(token) THEN token.email ELSE ""

\* {}
EmptyDict == [x \in {} |-> 0]

\* dict.pop(key, None)
DictPop(d, key) == [x \in DOMAIN d \ {key} |-> d[x]]

\* d[key] = val
DictSet(d, key, val) == [x \in DOMAIN d \cup {key} |-> IF x = key THEN val ELSE d[x]]

AuthInit ==
    /\ ACTIVE_SESSIONS = EmptyDict
    /\ DYN_ALLOWED \in SUBSET Emails
    /\ now = 0
    /\ nextSid = 1
    /\ pending = EmptyBag
    /\ issued = {}
    /\ ended = {}
    /\ loginResp = 0

\* time passes
Tick ==
    /\ UNCHANGED <<upVars, fnVars>>
    /\ \E t \in Times : t > now /\ now' = t
    /\ UNCHANGED <<ACTIVE_SESSIONS, DYN_ALLOWED, nextSid, pending, issued, ended, loginResp>>

\* POST /auth/login arrives; the handler suspends in "await request.json()"
LoginRequest(raw) ==
    /\ UNCHANGED <<upVars, fnVars>>
    /\ BagCardinality(pending) < MaxPending
    /\ pending' = pending (+) SetToBag({raw})
    /\ UNCHANGED <<ACTIVE_SESSIONS, DYN_ALLOWED, now, nextSid, issued, ended, loginResp>>

\* a login that does not look at the allowlist
LoginStatus_NoAllowCheck(email, allowed, active) ==
    IF email = "" \/ ~HasAt(email) THEN 400
    ELSE IF email \in DOMAIN active THEN 409
    ELSE 200

\* a login that does not look for an active session
LoginStatus_NoConflictCheck(email, allowed, active) ==
    IF email = "" \/ ~HasAt(email) THEN 400
    ELSE IF email \notin allowed THEN 403
    ELSE 200

\* lines 230-241 of email_login: the status it answers with
LoginStatus(email, allowed, active) ==
    IF email = "" \/ ~HasAt(email) THEN 400
    ELSE IF email \notin allowed THEN 403
    ELSE IF email \in DOMAIN active THEN 409
    ELSE 200

\* the rest of email_login for a body with "email" value raw, which runs
\* without suspending
LoginHandle(raw) ==
    /\ UNCHANGED <<upVars, fnVars>>
    /\ BagIn(raw, pending)
    /\ pending' = pending (-) SetToBag({raw})
    /\ LET email == NormEmail(raw)
           code == LoginStatus(email, DYN_ALLOWED, ACTIVE_SESSIONS)
       IN  IF code # 200
           THEN /\ loginResp' = code
                /\ UNCHANGED <<ACTIVE_SESSIONS, nextSid, issued>>
           ELSE /\ nextSid <= MaxSid
                /\ ACTIVE_SESSIONS' = DictSet(ACTIVE_SESSIONS, email, nextSid)
                /\ nextSid' = nextSid + 1
                /\ issued' = issued \cup {Token(email, nextSid, now)}
                /\ loginResp' = 200
    /\ UNCHANGED <<DYN_ALLOWED, now, ended>>

\* POST /auth/logout with cookie k
email_logout(k) ==
    /\ UNCHANGED <<upVars, fnVars>>
    /\ IF _load_session(k) /\ k.email \in DOMAIN ACTIVE_SESSIONS
          /\ ACTIVE_SESSIONS[k.email] = k.sid
       THEN /\ ACTIVE_SESSIONS' = DictPop(ACTIVE_SESSIONS, k.email)
            /\ ended' = ended \cup {[sid |-> k.sid, by |-> "logout"]}
       ELSE UNCHANGED <<ACTIVE_SESSIONS, ended>>
    /\ UNCHANGED <<DYN_ALLOWED, now, nextSid, pending, issued, loginResp>>

\* _require_admin: 0 when the bearer token is ADMIN_TOKEN, else the status raised
RequireAdmin(auth) ==
    CASE auth = "missing" -> 401
      [] auth = "wrong" -> 403
      [] OTHER -> 0

AdminAuths == {"missing", "wrong", "ok"}

\* POST /admin/allow
admin_allow(auth, raw) ==
    /\ UNCHANGED <<upVars, fnVars>>
    /\ LET email == NormEmail(raw)
       IN  IF RequireAdmin(auth) # 0 \/ email = "" \/ ~HasAt(email)
           THEN UNCHANGED DYN_ALLOWED
           ELSE DYN_ALLOWED' = DYN_ALLOWED \cup {email}
    /\ UNCHANGED <<ACTIVE_SESSIONS, now, nextSid, pending, issued, ended, loginResp>>

\* a revocation that leaves the identity's session in place
admin_revoke_KeepsSession(auth, raw) ==
    /\ UNCHANGED <<upVars, fnVars>>
    /\ LET email == NormEmail(raw)
       IN  IF RequireAdmin(auth) # 0 \/ email = "" \/ ~HasAt(email)
           THEN UNCHANGED <<DYN_ALLOWED, ended>>
           ELSE /\ DYN_ALLOWED' = DYN_ALLOWED \ {email}
                /\ IF email \in DOMAIN ACTIVE_SESSIONS
                   THEN ended' = ended \cup {[sid |-> ACTIVE_SESSIONS[email], by |-> "revoke"]}
                   ELSE UNCHANGED ended
    /\ UNCHANGED <<ACTIVE_SESSIONS, now, nextSid, pending, issued, loginResp>>

\* POST /admin/revoke
admin_revoke(auth, raw) ==
    /\ UNCHANGED <<upVars, fnVars>>
    /\ LET email == NormEmail(raw)
       IN  IF RequireAdmin(auth) # 0 \/ email = "" \/ ~HasAt(email)
           THEN UNCHANGED <<DYN_ALLOWED, ACTIVE_SESSIONS, ended>>
           ELSE /\ DYN_ALLOWED' = DYN_ALLOWED \ {email}
                /\ IF email \in DOMAIN ACTIVE_SESSIONS
                   THEN /\ ACTIVE_SESSIONS' = DictPop(ACTIVE_SESSIONS, email)
                        /\ ended' = ended \cup {[sid |-> ACTIVE_SESSIONS[email], by |-> "revoke"]}
                   ELSE UNCHANGED <<ACTIVE_SESSIONS, ended>>
    /\ UNCHANGED <<now, nextSid, pending, issued, loginResp>>

(* ============================== /api/upload ============================ *)

SEM_CAPACITY == 10

JPEG_QUALITY == 95

\* what one client.get can end in: a success status with a body (an RGB JPEG,
\* an RGBA PNG, a page that is no image, nothing), a non-success status, a
\* network error, a timeout
Outcomes == {"jpeg_rgb", "png_rgba", "html", "empty", "http_error", "net_error", "timeout"}

\* r.raise_for_status() passes
IsSuccess(o) == o \in {"jpeg_rgb", "png_rgba", "html", "empty"}

NoPayload == [url |-> <<>>, body |-> "None"]

\* r.content of a successful request of url
Content(url, o) == [url |-> url, body |-> o]

\* "not content": None or b""
IsFalsy(content) == content.body \in {"None", "empty"}

\* Image.open(io.BytesIO(content)) succeeds
Decodes(content) == content.body \in {"jpeg_rgb", "png_rgba"}

\* img.mode of the decoded image
ImageMode(content) == IF content.body = "png_rgba" THEN "RGBA" ELSE "RGB"

NoImage == [src |-> NoPayload, mode |-> "", quality |-> 0]

\* lines 377-381: convert to RGB unless RGB or L, save as JPEG with quality 95
NormalizeImage(content) ==
    [src |-> content,
     mode |-> IF ImageMode(content) \notin {"RGB", "L"} THEN "RGB" ELSE ImageMode(content),
     quality |-> JPEG_QUALITY]

\* os.path.splitext(os.path.basename(filename))[0]; an extension is one symbol
\* that starts with "."
Extensions == {".xlsx", ".XLSX", ".csv", ".zip"}

WorkbookName(filename) ==
    LET parts == Split(filename, "/")
        base == parts[Len(parts)]
    IN  IF Len(base) > 1 /\ base[Len(base)] \in Extensions
        THEN SubSeq(base, 1, Len(base) - 1) ELSE base

\* file.filename.lower().endswith(".xlsx")
IsXlsxName(filename) == filename # <<>> /\ LowerSym(filename[Len(filename)]) = ".xlsx"

\* f"{inner_dir}/final_image_{seq}.jpg"
ImagePath(workbook_name, sheet_name, n) ==
    [wb |-> slugify(workbook_name), sheet |-> slugify(sheet_name), name |-> "final_image", n |-> n]

\* f"{slugify(workbook_name)}/failed.json"
ManifestPath(workbook_name) ==
    [wb |-> slugify(workbook_name), sheet |-> <<>>, name |-> "failed.json", n |-> 0]

\* the rows below the header that hold a cell in column col, ascending (a row
\* without one reads as an empty cell, which yields no URL)
RECURSIVE SortedRows(_)
SortedRows(S) ==
    IF S = {} THEN <<>>
    ELSE LET m == CHOOSE x \in S : \A y \in S : x <= y
         IN  <<m>> \o SortedRows(S \ {m})

\* lines 356-363: the plans of a sheet, in row order
RECURSIVE PlansOfRows(_, _, _)
PlansOfRows(ws, rows, col) ==
    IF rows = <<>> THEN <<>>
    ELSE LET raw == extract_url_from_cell(CellAt(ws, Head(rows), col))
             plan == build_fetch_plan(raw)
         IN  (IF raw # <<>> /\ plan.candidates # <<>> THEN <<plan>> ELSE <<>>)
             \o PlansOfRows(ws, Tail(rows), col)

BuildPlans(ws, loc) ==
    PlansOfRows(ws,
                SortedRows({rc[1] : rc \in {x \in DOMAIN ws.cells : x[2] = loc[2] /\ x[1] > loc[1]}}),
                loc[2])

\* a fetch_one coroutine: cand is the index of the candidate it tries next (or
\* is requesting), outs the outcomes of the candidates tried so far
NewTask(plan) ==
    [st |-> IF plan.candidates = <<>> THEN "done" ELSE "ready",
     cand |-> 1, outs |-> <<>>, result |-> NoPayload]

\* gather wraps the coroutines in tasks in argument order and the event loop
\* runs them first in, first out, so task i reaches its first "async with sem"
\* after the tasks before it reached theirs, and a semaphore wakes its waiters
\* in the order they came; a task that comes back for a later candidate
\* competes with the others in any order
StartsInOrder(ts, i) ==
    ts[i].outs = <<>> => \A j \in 1..(i - 1) : ts[j].st # "ready" \/ ts[j].outs # <<>>

\* a gate that never grants a permit
CanAcquire_Never(permits) == FALSE

\* a gate that never blocks
CanAcquire_Ungated(permits) == TRUE

\* sem.locked() is false: "async with sem" gets a permit
CanAcquire(permits) == permits > 0

\* a gate that gets no permit back from a request that timed out
Release_LeaksOnTimeout(permits, o) == IF o = "timeout" THEN permits ELSE permits + 1

\* leaving "async with sem", however the request ended: sem.release()
Release(permits, o) == permits + 1

\* a fetch_one that lets a network error or a timeout escape
AfterOutcome_Raises(t, plan, o) ==
    IF IsSuccess(o)
    THEN [st |-> "done", cand |-> t.cand, outs |-> Append(t.outs, o),
          result |-> Content(plan.candidates[t.cand], o)]
    ELSE IF o \in {"net_error", "timeout"}
    THEN [st |-> "raised", cand |-> t.cand, outs |-> Append(t.outs, o),
          result |-> NoPayload]
    ELSE IF t.cand < Len(plan.candidates)
    THEN [st |-> "ready", cand |-> t.cand + 1, outs |-> Append(t.outs, o),
          result |-> NoPayload]
    ELSE [st |-> "done", cand |-> t.cand, outs |-> Append(t.outs, o),
          result |-> NoPayload]

\* fetch_one after the request of candidate t.cand ended in outcome o: return
\* r.content on success, else go on to the next candidate, return None after
\* the last
AfterOutcome(t, plan, o) ==
    IF IsSuccess(o)
    THEN [st |-> "done", cand |-> t.cand, outs |-> Append(t.outs, o),
          result |-> Content(plan.candidates[t.cand], o)]
    ELSE IF t.cand < Len(plan.candidates)
    THEN [st |-> "ready", cand |-> t.cand + 1, outs |-> Append(t.outs, o),
          result |-> NoPayload]
    ELSE [st |-> "done", cand |-> t.cand, outs |-> Append(t.outs, o),
          result |-> NoPayload]

\* results handed over last task first
GatherResults_Reversed(ts) == [i \in 1..Len(ts) |-> ts[Len(ts) + 1 - i].result]

\* asyncio.gather(*...): the results in the order of the awaitables
GatherResults(ts) == [i \in 1..Len(ts) |-> ts[i].result]

\* the loop body with the counter advanced on a failure too
WalkItem_CountsFailures(w, workbook_name, sheet_name, by, display_url, content) ==
    IF IsFalsy(content) \/ ~Decodes(content)
    THEN [w EXCEPT !.failed = Append(@, [sheet |-> sheet_name, url |-> display_url]),
                   !.seq = @ + 1]
    ELSE [w EXCEPT !.zf = Append(@, [path |-> ImagePath(workbook_name, sheet_name, w.seq),
                                     image |-> NormalizeImage(content),
                                     json |-> <<>>, by |-> by]),
                   !.seq = @ + 1]

\* one iteration of the loop of lines 372-387 on w = [seq, failed, zf]
\* a walk that lets a payload that does not decode fall through: no image
\* entry and no failure record
WalkItem_DropsUndecodable(w, workbook_name, sheet_name, by, display_url, content) ==
    IF IsFalsy(content)
    THEN [w EXCEPT !.failed = Append(@, [sheet |-> sheet_name, url |-> display_url])]
    ELSE IF ~Decodes(content) THEN w
    ELSE [w EXCEPT !.zf = Append(@, [path |-> ImagePath(workbook_name, sheet_name, w.seq),
                                     image |-> NormalizeImage(content),
                                     json |-> <<>>, by |-> by]),
                   !.seq = @ + 1]

WalkItem(w, workbook_name, sheet_name, by, display_url, content) ==
    IF IsFalsy(content) \/ ~Decodes(content)
    THEN [w EXCEPT !.failed = Append(@, [sheet |-> sheet_name, url |-> display_url])]
    ELSE [w EXCEPT !.zf = Append(@, [path |-> ImagePath(workbook_name, sheet_name, w.seq),
                                     image |-> NormalizeImage(content),
                                     json |-> <<>>, by |-> by]),
                   !.seq = @ + 1]

\* how json.dumps writes a symbol inside a string when ensure_ascii is set
JsonEscapeSym(c) ==
    CASE c = "u00E9" -> "\\u00e9"
      [] c = "uFB01" -> "\\ufb01"
      [] c = "u65E5" -> "\\u65e5"
      [] OTHER -> c

\* how json.loads reads it back
JsonUnescapeSym(c) ==
    CASE c = "\\u00e9" -> "u00E9"
      [] c = "\\ufb01" -> "uFB01"
      [] c = "\\u65e5" -> "u65E5"
      [] OTHER -> c

JsonString(s, ensure_ascii) ==
    [i \in 1..Len(s) |-> IF ensure_ascii THEN JsonEscapeSym(s[i]) ELSE s[i]]

\* json.dumps of the list of failure records: a document is the sequence of
\* its objects, each with its two strings as written (indentation does not
\* change what the document says and is left out)
json_dumps(obj, ensure_ascii) ==
    [i \in 1..Len(obj) |-> [sheet |-> JsonString(obj[i].sheet, ensure_ascii),
                            url |-> JsonString(obj[i].url, ensure_ascii)]]

json_loads(doc) ==
    [i \in 1..Len(doc) |->
        [sheet |-> [j \in 1..Len(doc[i].sheet) |-> JsonUnescapeSym(doc[i].sheet[j])],
         url |-> [j \in 1..Len(doc[i].url) |-> JsonUnescapeSym(doc[i].url[j])]]]

\* base64.b64encode(...).decode("ascii") and its inverse
b64encode(bytes) == [b64 |-> bytes]

b64decode(text) == text.b64

\* a manifest written whether or not a fetch failed
WriteManifest_Always(entries, failures, workbook_name) ==
    Append(entries, [path |-> ManifestPath(workbook_name), image |-> NoImage,
                     json |-> json_dumps(failures, FALSE), by |-> 0])

\* lines 390-391: the manifest, written when there are failure records
WriteManifest(entries, failures, workbook_name) ==
    IF failures # <<>>
    THEN Append(entries, [path |-> ManifestPath(workbook_name), image |-> NoImage,
                          json |-> json_dumps(failures, FALSE), by |-> 0])
    ELSE entries

file == scenario.file

net == scenario.net

Sheets == file.wb

CurSheet == Sheets[sheetIdx]

LogEntry(ws, loc, ps, ts, rs) ==
    [title |-> ws.title, loc |-> loc, plans |-> ps,
     outs |-> [i \in 1..Len(ts) |-> ts[i].outs], results |-> rs]

\* the dependency require_user, then lines 331-345
UploadStart ==
    /\ UNCHANGED <<authVars, fnVars>>
    /\ pc = "start"
    /\ IF require_user(cookie) = "" THEN status' = 401 /\ pc' = "done"
       ELSE IF ~IsXlsxName(file.filename) THEN status' = 400 /\ pc' = "done"
       ELSE IF file.data = "empty" THEN status' = 400 /\ pc' = "done"
       ELSE IF file.data = "unreadable" THEN status' = 400 /\ pc' = "done"
       ELSE status' = 0 /\ pc' = "sheets"
    /\ UNCHANGED <<cookie, scenario, sheetIdx, plans, tasks, sem, results, walkIdx,
                   seq, failed, zf, header, attempts, log>>
    /\ UNCHANGED reordered

\* lines 350-353: no marker column, next sheet
SheetSkipNoMarker ==
    /\ UNCHANGED <<authVars, fnVars>>
    /\ pc = "sheets" /\ sheetIdx <= Len(Sheets)
    /\ find_final_col(CurSheet) = <<>>
    /\ log' = Append(log, LogEntry(CurSheet, <<>>, <<>>, <<>>, <<>>))
    /\ sheetIdx' = sheetIdx + 1
    /\ UNCHANGED <<cookie, scenario, pc, status, plans, tasks, sem, results, walkIdx,
                   seq, failed, zf, header, attempts>>
    /\ UNCHANGED reordered

\* lines 354-365: a marker column but no plan, next sheet
SheetSkipNoPlans ==
    /\ UNCHANGED <<authVars, fnVars>>
    /\ pc = "sheets" /\ sheetIdx <= Len(Sheets)
    /\ LET loc == find_final_col(CurSheet)
       IN  /\ loc # <<>>
           /\ BuildPlans(CurSheet, loc) = <<>>
           /\ log' = Append(log, LogEntry(CurSheet, loc, <<>>, <<>>, <<>>))
    /\ sheetIdx' = sheetIdx + 1
    /\ UNCHANGED <<cookie, scenario, pc, status, plans, tasks, sem, results, walkIdx,
                   seq, failed, zf, header, attempts>>
    /\ UNCHANGED reordered

\* lines 354-369: the plans, a new semaphore, one fetch_one task per plan
SheetGather ==
    /\ UNCHANGED <<authVars, fnVars>>
    /\ pc = "sheets" /\ sheetIdx <= Len(Sheets)
    /\ LET loc == find_final_col(CurSheet)
       IN  /\ loc # <<>>
           /\ BuildPlans(CurSheet, loc) # <<>>
           /\ plans' = BuildPlans(CurSheet, loc)
    /\ tasks' = [i \in 1..Len(plans') |-> NewTask(plans'[i])]
    /\ sem' = SEM_CAPACITY
    /\ pc' = "gather"
    /\ UNCHANGED <<cookie, scenario, status, sheetIdx, results, walkIdx, seq, failed,
                   zf, header, attempts, log>>
    /\ UNCHANGED reordered

\* task i enters "async with sem" and issues client.get for its candidate
FetchAcquire(i) ==
    /\ UNCHANGED <<authVars, fnVars>>
    /\ pc = "gather"
    /\ tasks[i].st = "ready"
    /\ StartsInOrder(tasks, i)
    /\ CanAcquire(sem)
    /\ sem' = sem - 1
    /\ tasks' = [tasks EXCEPT ![i].st = "inflight"]
    /\ attempts' = [attempts EXCEPT ![sheetIdx] = @ + 1]
    /\ UNCHANGED <<cookie, scenario, pc, status, sheetIdx, plans, results, walkIdx,
                   seq, failed, zf, header, log>>
    /\ UNCHANGED reordered

\* the request of task i ends in outcome o; the permit is released
FetchComplete(i, o) ==
    /\ UNCHANGED <<authVars, fnVars>>
    /\ pc = "gather"
    /\ tasks[i].st = "inflight"
    /\ o \in net[plans[i].candidates[tasks[i].cand]]
    /\ sem' = Release(sem, o)
    /\ reordered' = (reordered \/ (AfterOutcome(tasks[i], plans[i], o).st = "done"
                                    /\ \E j \in 1..(i - 1) : tasks[j].st # "done"))
    /\ tasks' = [tasks EXCEPT ![i] = AfterOutcome(tasks[i], plans[i], o)]
    /\ UNCHANGED <<cookie, scenario, pc, status, sheetIdx, plans, results, walkIdx,
                   seq, failed, zf, header, attempts, log>>

\* every task has returned: gather returns, line 371
GatherReturn ==
    /\ UNCHANGED <<authVars, fnVars>>
    /\ pc = "gather"
    /\ \A i \in 1..Len(tasks) : tasks[i].st = "done"
    /\ results' = GatherResults(tasks)
    /\ seq' = 1
    /\ walkIdx' = 1
    /\ pc' = "walk"
    /\ UNCHANGED <<cookie, scenario, status, sheetIdx, plans, tasks, sem, failed, zf,
                   header, attempts, log>>
    /\ UNCHANGED reordered

\* one iteration of the loop over zip(plans, results)
WalkStep ==
    /\ UNCHANGED <<authVars, fnVars>>
    /\ pc = "walk" /\ walkIdx <= Len(plans)
    /\ LET w == WalkItem([seq |-> seq, failed |-> failed, zf |-> zf],
                         WorkbookName(file.filename), CurSheet.title, sheetIdx,
                         plans[walkIdx].display, results[walkIdx])
       IN  seq' = w.seq /\ failed' = w.failed /\ zf' = w.zf
    /\ walkIdx' = walkIdx + 1
    /\ UNCHANGED <<cookie, scenario, pc, status, sheetIdx, plans, tasks, sem, results,
                   header, attempts, log>>
    /\ UNCHANGED reordered

\* the loop over the results is through: next sheet
SheetDone ==
    /\ UNCHANGED <<authVars, fnVars>>
    /\ pc = "walk" /\ walkIdx > Len(plans)
    /\ log' = Append(log, LogEntry(CurSheet, find_final_col(CurSheet), plans, tasks, results))
    /\ sheetIdx' = sheetIdx + 1
    /\ plans' = <<>> /\ tasks' = <<>> /\ results' = <<>>
    /\ pc' = "sheets"
    /\ UNCHANGED <<cookie, scenario, status, sem, walkIdx, seq, failed, zf, header,
                   attempts>>
    /\ UNCHANGED reordered

\* lines 390-404: the manifest, the response
Finish ==
    /\ UNCHANGED <<authVars, fnVars>>
    /\ pc = "sheets" /\ sheetIdx > Len(Sheets)
    /\ zf' = WriteManifest(zf, failed, WorkbookName(file.filename))
    /\ header' = <<b64encode(json_dumps(failed, TRUE))>>
    /\ status' = 200
    /\ pc' = "done"
    /\ UNCHANGED <<cookie, scenario, sheetIdx, plans, tasks, sem, results, walkIdx,
                   seq, failed, attempts, log>>
    /\ UNCHANGED reordered

(* ------------------------------- inputs -------------------------------- *)

StrCell(v) == [hyperlink |-> FALSE, target |-> <<>>, vtype |-> "str", value |-> v]

NumCell == [hyperlink |-> FALSE, target |-> <<>>, vtype |-> "num", value |-> <<>>]

LinkCell(t, v) == [hyperlink |-> TRUE, target |-> t, vtype |-> "str", value |-> v]

U_PLAIN == <<"https", "://", "example.com", "/", "a.jpg">>

U_GEN == <<"https", "://", "example.com", "/", "img.png", "?", "utm_source", "=", "x",
           "&", "id", "=", "5">>

U_GEN_STRIPPED == <<"https", "://", "example.com", "/", "img.png", "?", "id", "=", "5">>

U_DRIVE == <<"https", "://", "drive.google.com", "/", "file", "/", "d", "/", "ABC", "/",
             "view", "?", "usp", "=", "sharing">>

U_DRIVE_UC == <<"https", "://", "drive.google.com", "/", "uc", "?", "export", "=",
                "download", "&", "id", "=", "ABC">>

U_DBX == <<"https", "://", "www.dropbox.com", "/", "s", "/", "x.png">>

U_DBX0 == <<"https", "://", "www.dropbox.com", "/", "s", "/", "y.png", "?", "dl", "=", "0">>

U_DBX1 == <<"https", "://", "www.dropbox.com", "/", "s", "/", "y.png", "?", "dl", "=", "1">>

\* an unbalanced bracket, which urlparse rejects, and a letter outside ASCII
U_BAD == <<"http", "://", "[", "abc", "/", "u00E9">>

\* =HYPERLINK("<url>","label")
Formula(url) == <<"=", "HYPERLINK", "(", "\"">> \o url \o <<"\"", ",", "\"", "label", "\"", ")">>

\* a sheet "A B": the marker in column 2, then a hyperlinked cell, a number, a
\* formula, a text that is no URL, a plain URL
SHEET_MIXED ==
    [title |-> <<"A", " ", "B">>,
     cells |-> (<<1, 1>> :> StrCell(<<"Name">>))
            @@ (<<1, 2>> :> StrCell(<<" ", "Final", " ", "Image">>))
            @@ (<<2, 1>> :> StrCell(U_DBX0))
            @@ (<<2, 2>> :> LinkCell(U_PLAIN, <<"photo">>))
            @@ (<<3, 2>> :> NumCell)
            @@ (<<4, 2>> :> StrCell(Formula(U_DRIVE)))
            @@ (<<5, 2>> :> StrCell(<<"n", "/", "a">>))
            @@ (<<6, 2>> :> StrCell(U_GEN))]

\* a sheet whose only marker lies below the scan bound
SHEET_LATE ==
    [title |-> <<"L", "a", "t", "e">>,
     cells |-> (<<MAX_SCAN_ROWS + 1, 1>> :> StrCell(<<"Final">>))
            @@ (<<MAX_SCAN_ROWS + 2, 1>> :> StrCell(U_PLAIN))]

\* a sheet with a marker and no row that yields a URL
SHEET_NOURLS ==
    [title |-> <<"N", "o">>,
     cells |-> (<<2, 1>> :> StrCell(<<"FINAL">>))
            @@ (<<3, 1>> :> StrCell(<<"n", "/", "a">>))
            @@ (<<4, 1>> :> NumCell)
            @@ (<<5, 1>> :> LinkCell(<<" ">>, <<"x">>))]

\* a sheet "A_B" with Dropbox links and a URL that does not parse
SHEET_DBX ==
    [title |-> <<"A", "_", "B">>,
     cells |-> (<<1, 1>> :> StrCell(<<"final">>))
            @@ (<<2, 1>> :> StrCell(U_DBX))
            @@ (<<3, 1>> :> StrCell(U_DBX0))
            @@ (<<4, 1>> :> StrCell(U_BAD))]

Extra == 1

\* a sheet with more rows than the semaphore has permits
SHEET_BIG ==
    [title |-> <<"B", "i", "g">>,
     cells |-> [rc \in {<<r, 1>> : r \in 1..(SEM_CAPACITY + Extra + 1)} |->
                   IF rc[1] = 1 THEN StrCell(<<"Final">>) ELSE StrCell(U_PLAIN)]]

SHEET_ONE ==
    [title |-> <<"S">>,
     cells |-> (<<1, 1>> :> StrCell(<<"Final">>)) @@ (<<2, 1>> :> StrCell(U_PLAIN))]

\* scenarios: an uploaded file and what the servers may answer
SC_MIXED ==
    [file |-> [filename |-> <<"u", "p", "/", "r", "u00E9", "p", ".xlsx">>, data |-> "xlsx",
               wb |-> <<SHEET_MIXED, SHEET_LATE, SHEET_NOURLS, SHEET_DBX>>],
     net |-> (U_PLAIN :> {"jpeg_rgb", "html", "timeout"})
          @@ (U_DRIVE :> {"html", "http_error"})
          @@ (U_DRIVE_UC :> {"png_rgba", "net_error"})
          @@ (U_GEN :> {"net_error"})
          @@ (U_GEN_STRIPPED :> {"jpeg_rgb", "empty"})
          @@ (U_DBX :> {"jpeg_rgb", "http_error"})
          @@ (U_DBX0 :> {"html"})
          @@ (U_DBX1 :> {"png_rgba"})
          @@ (U_BAD :> {"net_error"})]

SC_BIG ==
    [file |-> [filename |-> <<"b", "i", "g", ".XLSX">>, data |-> "xlsx", wb |-> <<SHEET_BIG>>],
     net |-> (U_PLAIN :> {"jpeg_rgb"})]

SC_SKIPPED ==
    [file |-> [filename |-> <<"s", ".xlsx">>, data |-> "xlsx",
               wb |-> <<SHEET_NOURLS, SHEET_LATE>>],
     net |-> (U_PLAIN :> {"jpeg_rgb"})]

SC_CSV ==
    [file |-> [filename |-> <<"r", ".csv">>, data |-> "xlsx", wb |-> <<SHEET_ONE>>],
     net |-> (U_PLAIN :> {"jpeg_rgb"})]

SC_EMPTY ==
    [file |-> [filename |-> <<"e", ".xlsx">>, data |-> "empty", wb |-> <<SHEET_ONE>>],
     net |-> (U_PLAIN :> {"jpeg_rgb"})]

SC_UNREADABLE ==
    [file |-> [filename |-> <<"x", ".xlsx">>, data |-> "unreadable", wb |-> <<SHEET_ONE>>],
     net |-> (U_PLAIN :> {"jpeg_rgb"})]

Scenarios == {SC_MIXED, SC_BIG, SC_SKIPPED, SC_CSV, SC_EMPTY, SC_UNREADABLE}

\* the session gate as an upload request may find it, and the cookie it carries
AuthCfg(active, allowed, t, k, iss, end) ==
    [active |-> active, allowed |-> allowed, now |-> t, cookie |-> k,
     issued |-> iss, ended |-> end]

A1 == "a@x.io"

AuthCfgs ==
    { \* the current session, at the last second of its token
      AuthCfg((A1 :> 1), {A1}, SESSION_MAX_AGE, Token(A1, 1, 0), {Token(A1, 1, 0)}, {}),
      \* no cookie
      AuthCfg((A1 :> 1), {A1}, 0, NoCookie, {Token(A1, 1, 0)}, {}),
      \* a cookie whose signature does not verify
      AuthCfg((A1 :> 1), {A1}, 0, [Token(A1, 1, 0) EXCEPT !.sig = "bad"],
              {Token(A1, 1, 0)}, {}),
      \* an expired token
      AuthCfg((A1 :> 1), {A1}, SESSION_MAX_AGE + 1, Token(A1, 1, 0), {Token(A1, 1, 0)}, {}),
      \* a session superseded by a later login
      AuthCfg((A1 :> 2), {A1}, 0, Token(A1, 1, 0), {Token(A1, 1, 0), Token(A1, 2, 0)},
              {[sid |-> 1, by |-> "logout"]}),
      \* a session ended by a revocation
      AuthCfg(EmptyDict, {}, 0, Token(A1, 1, 0), {Token(A1, 1, 0)},
              {[sid |-> 1, by |-> "revoke"]}) }

(* --------------------------- specifications ---------------------------- *)

\* no function is called on its own
FnIdle ==
    /\ arg_url = <<>> /\ ret_plan = [display |-> <<>>, candidates |-> <<>>]
    /\ arg_ws = [title |-> <<>>, cells |-> [rc \in {} |-> EmptyCell]]
    /\ ret_loc = <<>> /\ called = {}

\* the session gate alone: no upload request
UploadIdle ==
    /\ cookie = NoCookie
    /\ scenario = [file |-> [filename |-> <<>>, data |-> "empty", wb |-> <<>>],
                   net |-> EmptyDict]
    /\ pc = "idle" /\ status = 0 /\ sheetIdx = 1
    /\ plans = <<>> /\ tasks = <<>> /\ sem = 0 /\ results = <<>>
    /\ walkIdx = 1 /\ seq = 1 /\ failed = <<>> /\ zf = <<>> /\ header = <<>>
    /\ attempts = <<>> /\ log = <<>> /\ reordered = FALSE

InitAuth == AuthInit /\ UploadIdle /\ FnIdle

NextAuth ==
    \/ Tick
    \/ \E raw \in RawEmails : LoginRequest(raw)
    \/ \E raw \in RawEmails : LoginHandle(raw)
    \/ \E k \in Presentable : email_logout(k)
    \/ \E a \in AdminAuths, raw \in RawEmails : admin_allow(a, raw)
    \/ \E a \in AdminAuths, raw \in RawEmails : admin_revoke(a, raw)

SpecAuth == InitAuth /\ [][NextAuth]_vars

\* one upload request against a session gate that does not change meanwhile
InitUpload ==
    /\ \E a \in AuthCfgs :
          /\ ACTIVE_SESSIONS = a.active /\ DYN_ALLOWED = a.allowed
          /\ now = a.now /\ cookie = a.cookie
          /\ issued = a.issued /\ ended = a.ended
          /\ nextSid = Cardinality(a.issued) + 1
    /\ pending = EmptyBag
    /\ loginResp = 0
    /\ scenario \in Scenarios
    /\ attempts = [i \in 1..Len(scenario.file.wb) |-> 0]
    /\ pc = "start" /\ status = 0 /\ sheetIdx = 1
    /\ plans = <<>> /\ tasks = <<>> /\ sem = 0 /\ results = <<>>
    /\ walkIdx = 1 /\ seq = 1 /\ failed = <<>> /\ zf = <<>> /\ header = <<>>
    /\ log = <<>> /\ reordered = FALSE
    /\ FnIdle

NextUpload ==
    \/ UploadStart
    \/ SheetSkipNoMarker
    \/ SheetSkipNoPlans
    \/ SheetGather
    \/ \E i \in 1..Len(tasks) : FetchAcquire(i)
    \/ \E i \in 1..Len(tasks), o \in Outcomes : FetchComplete(i, o)
    \/ GatherReturn
    \/ WalkStep
    \/ SheetDone
    \/ Finish

SpecUpload == InitUpload /\ [][NextUpload]_vars

\* the most plans a sheet of the scenarios has
MaxPlans == SEM_CAPACITY + Extra

\* the steps of the handler itself, between two awaits
HandlerStep ==
    \/ UploadStart
    \/ SheetSkipNoMarker
    \/ SheetSkipNoPlans
    \/ SheetGather
    \/ GatherReturn
    \/ WalkStep
    \/ SheetDone
    \/ Finish

\* a handler step is ready to run: the handler is not at an await (lines
\* 329-404; the only await that can block is gather, line 369, which returns
\* once every task has returned).  In these states, and in no others, one of
\* the steps of HandlerStep is enabled.
HandlerReady ==
    \/ pc \in {"start", "sheets", "walk"}
    \/ pc = "gather" /\ \A i \in 1..Len(tasks) : tasks[i].st = "done"

\* the event loop runs a handler step that is ready (weak fairness of
\* HandlerStep, its enabling condition written out as HandlerReady);
\* asyncio.Semaphore hands a free permit to the task that waited longest; a
\* request that was issued ends, in one outcome or another (the client has a
\* timeout).  No step of an upload can be undone, so fairness per kind of step
\* is fairness per task.
FairUpload ==
    /\ ([]<>(~HandlerReady) \/ []<><<HandlerStep>>_vars)
    /\ WF_vars(\E i \in 1..Len(tasks) : FetchAcquire(i))
    /\ WF_vars(\E i \in 1..Len(tasks) : \E o \in Outcomes : FetchComplete(i, o))

SpecUploadLive == SpecUpload /\ FairUpload

(* ----------------------- the functions on their own -------------------- *)

\* raw URLs: optional leading blank, scheme, host, path, query, optional "#"
UrlPrefixes == {<<>>, <<" ">>}

UrlSchemes == {"https", "HTTPS"}

UrlHosts == {<<"example.com">>, <<"drive.google.com">>, <<"www.dropbox.com">>, <<"[", "abc">>}

UrlPaths ==
    {<<"/", "a.jpg">>, <<"/", "file", "/", "d", "/", "ABC", "/", "view">>, <<"/", "uc">>}

UrlQueries ==
    {<<>>,
     <<"?">>,
     <<"?", "id", "=", "5">>,
     <<"?", "utm_source", "=", "x">>,
     <<"?", "utm_source", "=", "x", "&", "id", "=", "5">>,
     <<"?", "fbclid", "=", "z", "&", "b", "=", "2", "&", "a", "=", "1">>,
     <<"?", "id", "=", "1", "&", "id", "=", "2">>,
     <<"?", "a", "=", "&", "id", "=", "5">>,
     <<"?", "q", "=", "a", "%20", "b">>,
     <<"?", "dl", "=", "0">>,
     <<"?", "dl", "=", "1">>}

UrlSuffixes == {<<>>, <<"#">>}

RawUrls ==
    {pre \o <<sch, "://">> \o host \o path \o query \o suf :
        pre \in UrlPrefixes, sch \in UrlSchemes, host \in UrlHosts, path \in UrlPaths,
        query \in UrlQueries, suf \in UrlSuffixes}

\* worksheets: each of a few positions, in and below the rows that
\* find_final_col scans, is empty or holds a header, another text or a number
GridPositions ==
    {<<1, 1>>, <<1, 2>>, <<2, 1>>, <<MAX_SCAN_ROWS, 2>>, <<MAX_SCAN_ROWS + 1, 1>>}

GridKinds == {"absent", "header", "text", "num"}

GridCell(kind, rc) ==
    CASE kind = "header" ->
            (IF rc[2] = 1 THEN StrCell(<<" ", "Final", " ", "Image">>) ELSE StrCell(<<"FINAL">>))
      [] kind = "text" -> StrCell(<<"The", " ", "final">>)
      [] OTHER -> NumCell

GridSheets ==
    {[title |-> <<"G">>,
      cells |-> [rc \in {x \in GridPositions : f[x] # "absent"} |-> GridCell(f[rc], rc)]] :
        f \in [GridPositions -> GridKinds]}

\* one call of build_fetch_plan, or one of find_final_col
InitFn ==
    /\ AuthInit /\ DYN_ALLOWED = {} /\ UploadIdle
    /\ \/ arg_url \in RawUrls /\ arg_ws = [title |-> <<>>, cells |-> [rc \in {} |-> EmptyCell]]
       \/ arg_url = <<>> /\ arg_ws \in GridSheets
    /\ ret_plan = [display |-> <<>>, candidates |-> <<>>]
    /\ ret_loc = <<>>
    /\ called = {}

CallBuildFetchPlan ==
    /\ "build_fetch_plan" \notin called
    /\ ret_plan' = build_fetch_plan(arg_url)
    /\ called' = called \cup {"build_fetch_plan"}
    /\ UNCHANGED <<arg_url, arg_ws, ret_loc, authVars, upVars>>

CallFindFinalCol ==
    /\ "find_final_col" \notin called
    /\ ret_loc' = find_final_col(arg_ws)
    /\ called' = called \cup {"find_final_col"}
    /\ UNCHANGED <<arg_url, arg_ws, ret_plan, authVars, upVars>>

NextFn ==
    \/ CallBuildFetchPlan
    \/ CallFindFinalCol

SpecFn == InitFn /\ [][NextFn]_vars

(* =============================== claims ================================ *)

\* the archive entries written while sheet i was processed, in order
EntriesBy(i) == SelectSeq(zf, LAMBDA e : e.by = i)

\* the image numbers of those entries
NumbersBy(i) == [j \in 1..Len(EntriesBy(i)) |-> EntriesBy(i)[j].path.n]

\* how many of the first m results both fetched and decoded
Successes(rs, m) == Cardinality({p \in 1..m : rs[p] # NoPayload /\ Decodes(rs[p])})

OneTo(k) == [j \in 1..k |-> j]

\* C1: the image entries written for a sheet are named final_image_1.jpg ..
\* final_image_k.jpg, in that order, k being the number of the sheet's plans
\* that fetched and decoded: for a sheet gone through k counts all its plans,
\* for the sheet being walked the plans walked so far, and the counter is k + 1;
\* nothing is written for a sheet before its results are walked.
C1_DenseImageNumbers ==
    /\ \A i \in 1..Len(log) :
          /\ NumbersBy(i) = OneTo(Successes(log[i].results, Len(log[i].results)))
          /\ \A j \in 1..Len(EntriesBy(i)) : EntriesBy(i)[j].path.name = "final_image"
    /\ pc = "walk" =>
          /\ NumbersBy(sheetIdx) = OneTo(Successes(results, walkIdx - 1))
          /\ seq = Successes(results, walkIdx - 1) + 1
    /\ pc \in {"start", "sheets", "gather"} /\ sheetIdx <= Len(Sheets) =>
          NumbersBy(sheetIdx) = <<>>

\* a finished upload in which a sheet had a failure before a success, and in
\* which two sheets each wrote an image
C1_Witness ==
    /\ pc = "done" /\ status = 200
    /\ \E i \in 1..Len(log) : \E p, q \in 1..Len(log[i].results) :
          /\ p < q
          /\ ~Decodes(log[i].results[p]) /\ Decodes(log[i].results[q])
          /\ Len(EntriesBy(i)) >= 2
    /\ \E i, j \in 1..Len(log) : i # j /\ EntriesBy(i) # <<>> /\ EntriesBy(j) # <<>>

\* the requests in flight: the tasks inside client.get
InFlight == Cardinality({i \in 1..Len(tasks) : tasks[i].st = "inflight"})

\* C2: at no instant are more than 10 requests of the upload in flight.  The
\* tasks of one sheet are all there is to count: gather returns only when
\* every task of the sheet has returned, and the next sheet starts after that.
C2_AtMostTenInFlight ==
    /\ InFlight <= SEM_CAPACITY
    /\ pc # "gather" => InFlight = 0

\* ten requests in flight and a further task kept waiting by the gate
C2_Witness ==
    /\ InFlight = SEM_CAPACITY
    /\ \E i \in 1..Len(tasks) : tasks[i].st = "ready"

\* the cookies of identity e that _load_session accepts now
Accepted(e) == {k \in Presentable : k.email = e /\ _load_session(k)}

\* the session ids that a logout or a revocation has ended
EndedSids == {x.sid : x \in ended}

\* C3: for an allowlisted identity, a login handled while a session of that
\* identity is active (one of its cookies is accepted) is answered 409 and
\* leaves the session store and the set of issued cookies as they were; a
\* logout carrying the accepted cookie removes the identity's session; and a
\* login handled while the identity has no session is answered 200 and stores
\* a session id that was never used before, with a cookie for it.
C3_ConflictThenLoginAfterLogout ==
    [][ /\ \A raw \in RawEmails :
              BagIn(raw, pending) /\ NormEmail(raw) \in DYN_ALLOWED /\ LoginHandle(raw) =>
                  LET e == NormEmail(raw)
                  IN  /\ Accepted(e) # {} =>
                            /\ loginResp' = 409
                            /\ ACTIVE_SESSIONS' = ACTIVE_SESSIONS
                            /\ issued' = issued
                      /\ e \notin DOMAIN ACTIVE_SESSIONS =>
                            /\ loginResp' = 200
                            /\ e \in DOMAIN ACTIVE_SESSIONS'
                            /\ \A k \in issued : k.sid # ACTIVE_SESSIONS'[e]
                            /\ issued' = issued \cup {Token(e, ACTIVE_SESSIONS'[e], now)}
        /\ \A k \in Presentable :
              _load_session(k) /\ email_logout(k) =>
                  /\ k.email \notin DOMAIN ACTIVE_SESSIONS'
                  /\ DYN_ALLOWED' = DYN_ALLOWED
      ]_vars

\* an identity whose first session was ended by its logout and whose later
\* login was answered 200 with a second session, which is the accepted one;
\* a further login of the same identity is waiting to be handled
C3_Witness ==
    \E k1, k2 \in issued :
        /\ k1.email = k2.email /\ k1.sid # k2.sid
        /\ [sid |-> k1.sid, by |-> "logout"] \in ended
        /\ _load_session(k2)
        /\ loginResp = 200
        /\ \E raw \in RawEmails : NormEmail(raw) = k2.email /\ BagIn(raw, pending)

\* C4: at every moment, for every identity, the cookies that _load_session
\* accepts carry one session id at most, and that id is the one stored for the
\* identity in ACTIVE_SESSIONS; and of the cookies issued to an identity, at
\* most one belongs to a session that no logout or revocation has ended, so two
\* logins of one identity never both hold a session, however they overlap.
C4_OneAcceptedSidPerIdentity ==
    \A e \in Emails :
        /\ \A k1, k2 \in Accepted(e) : k1.sid = k2.sid
        /\ \A k \in Accepted(e) :
              e \in DOMAIN ACTIVE_SESSIONS /\ ACTIVE_SESSIONS[e] = k.sid
        /\ \A k1, k2 \in issued :
              k1.email = e /\ k2.email = e /\ k1.sid # k2.sid =>
                  k1.sid \in EndedSids \/ k2.sid \in EndedSids

\* two logins of one identity overlapped: both were pending, one has been
\* handled and holds the session, the other has been answered 409; an earlier
\* cookie of the identity, well signed and not expired, is no longer accepted
C4_Witness ==
    \E k1, k2 \in issued :
        /\ k1.email = k2.email /\ k1.sid # k2.sid
        /\ TokenLoads(k1, now) /\ ~_load_session(k1)
        /\ _load_session(k2)
        /\ loginResp = 409
        /\ pending = EmptyBag

\* the request carries no valid current session: no cookie, a signature that
\* does not verify, a token older than SESSION_MAX_AGE, or a session id that
\* is not the one stored for the identity (superseded, logged out, revoked)
SessionFault ==
    \/ cookie = NoCookie
    \/ cookie.sig # "ok"
    \/ now - cookie.ts > SESSION_MAX_AGE
    \/ cookie.email \notin DOMAIN ACTIVE_SESSIONS
    \/ ACTIVE_SESSIONS[cookie.email] # cookie.sid

\* the upload is no readable .xlsx workbook
FileFault ==
    \/ file.filename = <<>>
    \/ file.filename[Len(file.filename)] \notin {".xlsx", ".XLSX"}
    \/ file.data # "xlsx"

\* nothing of the upload has been processed: no sheet looked at, no plan, no
\* request, no archive entry, no failure record, no header
NothingProcessed ==
    /\ log = <<>> /\ sheetIdx = 1
    /\ plans = <<>> /\ tasks = <<>> /\ results = <<>>
    /\ \A i \in DOMAIN attempts : attempts[i] = 0
    /\ zf = <<>> /\ failed = <<>> /\ header = <<>>

\* C5: an upload without a valid current session is answered 401, and one with
\* a valid session but a filename that does not end in .xlsx, an empty body or
\* an unreadable workbook is answered 400; either way no sheet is processed, no
\* request is issued and no archive is produced; the session is decided first,
\* so a request with both faults is answered 401; and a request with neither
\* fault is never answered 401 or 400.
C5_FaultsStopTheRequest ==
    /\ pc = "start" => status = 0 /\ NothingProcessed
    /\ pc # "start" =>
          /\ SessionFault => status = 401
          /\ ~SessionFault /\ FileFault => status = 400
          /\ ~SessionFault /\ ~FileFault => status \in {0, 200}
    /\ status \in {400, 401} => pc = "done" /\ NothingProcessed

\* a request with a superseded cookie and a file that is no .xlsx, answered 401
C5_Witness ==
    /\ pc = "done" /\ status = 401
    /\ cookie # NoCookie /\ TokenLoads(cookie, now)
    /\ ~IsXlsxName(file.filename)

\* the requests issued for the tasks of the sheet in hand: those that have
\* ended and those in flight
RECURSIVE RequestsOf(_)
RequestsOf(ts) ==
    IF ts = <<>> THEN 0
    ELSE Len(Head(ts).outs) + (IF Head(ts).st = "inflight" THEN 1 ELSE 0)
         + RequestsOf(Tail(ts))

\* C6: for every plan of the sheet in hand, whatever its candidates answer:
\* the k-th request of the plan is for its k-th candidate and the next is
\* issued only after the one before has ended (the requests issued for the
\* sheet are the ended ones plus at most one in flight per plan); no request
\* follows a success; fetch_one has returned exactly when a candidate succeeded
\* or all have failed, never by raising; it returns the content of the first
\* candidate that succeeded, and None exactly when every candidate failed.
C6_FirstSuccessInOrder ==
    /\ Len(tasks) = Len(plans)
    /\ pc = "gather" => attempts[sheetIdx] = RequestsOf(tasks)
    /\ \A i \in 1..Len(tasks) :
          LET t == tasks[i]
              c == plans[i].candidates
              n == Len(t.outs)
          IN  /\ t.st \in {"ready", "inflight", "done"}
              /\ n <= Len(c)
              /\ \A j \in 1..n : t.outs[j] \in net[c[j]]
              /\ \A j \in 1..(n - 1) : ~IsSuccess(t.outs[j])
              /\ t.st \in {"ready", "inflight"} =>
                    /\ t.cand = n + 1 /\ t.cand <= Len(c)
                    /\ \A j \in 1..n : ~IsSuccess(t.outs[j])
                    /\ t.result = NoPayload
              /\ t.st = "done" =>
                    /\ n >= 1
                    /\ IsSuccess(t.outs[n]) \/ n = Len(c)
                    /\ IsSuccess(t.outs[n]) => t.result = Content(c[n], t.outs[n])
                    /\ ~IsSuccess(t.outs[n]) => t.result = NoPayload
                    /\ t.result = NoPayload <=>
                          (n = Len(c) /\ \A j \in 1..n : ~IsSuccess(t.outs[j]))

\* one plan returned the content of its second candidate after its first had
\* failed with a network error or a timeout, and another plan returned None
\* after each of its candidates had failed
C6_Witness ==
    /\ pc = "gather"
    /\ \E i \in 1..Len(tasks) :
          /\ tasks[i].st = "done" /\ Len(tasks[i].outs) = 2
          /\ tasks[i].outs[1] \in {"net_error", "timeout"}
          /\ tasks[i].result = Content(plans[i].candidates[2], tasks[i].outs[2])
    /\ \E i \in 1..Len(tasks) :
          /\ tasks[i].st = "done" /\ tasks[i].result = NoPayload
          /\ Len(tasks[i].outs) = Len(plans[i].candidates)
          /\ Len(tasks[i].outs) >= 2

\* what a plan's candidates answered decides what fetch_one returns for it:
\* the content of the first candidate with a success status, None without one
PayloadOf(plan, outs) ==
    LET ok == {j \in 1..Len(outs) :
                  IsSuccess(outs[j]) /\ \A k \in 1..(j - 1) : ~IsSuccess(outs[k])}
    IN  IF ok = {} THEN NoPayload
        ELSE LET j == CHOOSE x \in ok : TRUE IN Content(plan.candidates[j], outs[j])

\* the plans of logged sheet i, by index in plan order, whose payload is an
\* image, and those whose fetch failed or whose payload is none
GoodIdx(i) ==
    SelectSeq(OneTo(Len(log[i].plans)),
              LAMBDA p : Decodes(PayloadOf(log[i].plans[p], log[i].outs[p])))

BadIdx(i) ==
    SelectSeq(OneTo(Len(log[i].plans)),
              LAMBDA p : ~Decodes(PayloadOf(log[i].plans[p], log[i].outs[p])))

\* the image entries and the failure records that the plans of logged sheet i
\* and the answers of their candidates call for
RefImages(i) ==
    [r \in 1..Len(GoodIdx(i)) |->
        LET p == GoodIdx(i)[r]
            content == PayloadOf(log[i].plans[p], log[i].outs[p])
        IN  [path |-> [wb |-> slugify(WorkbookName(file.filename)),
                       sheet |-> slugify(log[i].title),
                       name |-> "final_image", n |-> r],
             image |-> [src |-> content, mode |-> "RGB", quality |-> JPEG_QUALITY],
             json |-> <<>>, by |-> i]]

RefFailed(i) ==
    [r \in 1..Len(BadIdx(i)) |->
        [sheet |-> log[i].title, url |-> log[i].plans[BadIdx(i)[r]].display]]

\* the failure records of the sheet logged as i (sheet names are unique in a
\* workbook)
FailedOf(i) == SelectSeq(failed, LAMBDA r : r.sheet = log[i].title)

\* C7: the image entries of a sheet (names and contents) and its failure
\* records are determined by the sheet's plans, in the order they were built,
\* and by what each candidate answered, whatever the order in which the
\* requests completed: gather hands over, for the p-th plan, what the p-th
\* fetch_one returned, and the r-th plan in plan order with an image gets
\* number r.
C7_ArchiveIndependentOfCompletionOrder ==
    /\ pc = "walk" =>
          /\ Len(results) = Len(plans)
          /\ \A p \in 1..Len(plans) : results[p] = PayloadOf(plans[p], tasks[p].outs)
    /\ \A i \in 1..Len(log) :
          /\ EntriesBy(i) = RefImages(i)
          /\ FailedOf(i) = RefFailed(i)

\* a finished upload in which a fetch_one returned before one of an earlier
\* plan, with a sheet that has two images and a failure record
C7_Witness ==
    /\ pc = "done" /\ status = 200 /\ reordered
    /\ \E i \in 1..Len(log) : Len(EntriesBy(i)) >= 2 /\ FailedOf(i) # <<>>

\* the manifest entries of the archive
Manifests == SelectSeq(zf, LAMBDA e : e.path.name = "failed.json")

\* the failure records called for by the first k logged sheets, sheet by sheet
RECURSIVE AllFailed(_)
AllFailed(k) == IF k = 0 THEN <<>> ELSE AllFailed(k - 1) \o RefFailed(k)

\* C8: the archive of a completed upload holds <workbook-slug>/failed.json
\* exactly when there is a failure record; it is written once, as the last
\* entry, after every sheet, and reads back as the list of failure records:
\* one {sheet, display URL} for each plan whose fetch failed or whose payload
\* is no image, in sheet order and then plan order; the X-Failed-Json header
\* reads back as the same list.
C8_ManifestIffFailures ==
    /\ pc # "done" => Manifests = <<>> /\ header = <<>>
    /\ pc = "done" /\ status = 200 =>
          /\ Len(log) = Len(Sheets)
          /\ failed = AllFailed(Len(log))
          /\ Len(Manifests) = (IF failed = <<>> THEN 0 ELSE 1)
          /\ failed # <<>> =>
                /\ zf[Len(zf)].path = [wb |-> slugify(WorkbookName(file.filename)),
                                       sheet |-> <<>>, name |-> "failed.json", n |-> 0]
                /\ json_loads(zf[Len(zf)].json) = failed
          /\ Len(header) = 1
          /\ json_loads(b64decode(header[1])) = failed

\* a completed upload with failure records of two sheets, one of them with a
\* letter outside ASCII that the header escapes and the manifest keeps
C8_Witness ==
    /\ pc = "done" /\ status = 200
    /\ \E a, b \in 1..Len(failed) : failed[a].sheet # failed[b].sheet
    /\ Len(Manifests) = 1
    /\ b64decode(header[1]) # Manifests[1].json

\* the cells of a sheet that the scan for the marker can stop at: a string
\* starting with "final", in one of the first MAX_SCAN_ROWS rows
MarkerCells(ws) ==
    {rc \in DOMAIN ws.cells : rc[1] <= MAX_SCAN_ROWS /\ IsFinalHeader(ws.cells[rc])}

\* the rows below the header whose cell in the marker column yields a URL
UsableRows(ws, loc) ==
    IF loc = <<>> THEN {}
    ELSE {r \in {rc[1] : rc \in DOMAIN ws.cells} :
             /\ r > loc[1]
             /\ extract_url_from_cell(CellAt(ws, r, loc[2])) # <<>>
             /\ build_fetch_plan(extract_url_from_cell(CellAt(ws, r, loc[2]))).candidates # <<>>}

\* C9: a sheet without a marker in the first MAX_SCAN_ROWS rows, or without a
\* row below the header that yields a URL, leaves nothing: no plan, no request,
\* no archive entry, no failure record.  In any other sheet the plans are the
\* rows that yield a URL, in row order, and nothing else: each ends as an image
\* entry or a failure record, so a row that yields no URL leaves no record.
C9_SkippedSheetsContributeNothing ==
    \A i \in 1..Len(log) :
        LET ws == Sheets[i]
            rows == SortedRows(UsableRows(ws, log[i].loc))
        IN  /\ log[i].title = ws.title
            /\ MarkerCells(ws) = {} => log[i].loc = <<>>
            /\ MarkerCells(ws) = {} \/ rows = <<>> =>
                  /\ log[i].plans = <<>>
                  /\ attempts[i] = 0
                  /\ EntriesBy(i) = <<>>
                  /\ FailedOf(i) = <<>>
            /\ Len(log[i].plans) = Len(rows)
            /\ \A p \in 1..Len(rows) :
                  log[i].plans[p].display
                      = Strip(extract_url_from_cell(CellAt(ws, rows[p], log[i].loc[2])))
            /\ Len(EntriesBy(i)) + Len(FailedOf(i)) = Len(rows)
            /\ rows # <<>> => attempts[i] >= Len(rows)

\* a completed upload with a sheet whose only marker lies below the scan
\* bound, a sheet with a marker and no URL, and a sheet that has images
\* although some of its rows below the header yield no URL
C9_Witness ==
    /\ pc = "done" /\ status = 200
    /\ \E i \in 1..Len(log) :
          MarkerCells(Sheets[i]) = {}
          /\ \E rc \in DOMAIN Sheets[i].cells : IsFinalHeader(Sheets[i].cells[rc])
    /\ \E i \in 1..Len(log) :
          log[i].loc # <<>> /\ UsableRows(Sheets[i], log[i].loc) = {}
    /\ \E i \in 1..Len(log) :
          /\ EntriesBy(i) # <<>>
          /\ \E rc \in DOMAIN Sheets[i].cells :
                /\ rc[1] > log[i].loc[1] /\ rc[2] = log[i].loc[2]
                /\ rc[1] \notin UsableRows(Sheets[i], log[i].loc)

\* every plan the upload has retained so far: those of the sheet in hand and
\* those of the sheets gone through
RetainedPlans ==
    {plans[p] : p \in 1..Len(plans)}
        \cup UNION {{log[i].plans[p] : p \in 1..Len(log[i].plans)} : i \in 1..Len(log)}

\* C10: every plan retained by upload_excel has a candidate list that is not
\* empty and holds no string twice.
C10_CandidatesDuplicateFree ==
    \A plan \in RetainedPlans :
        /\ plan.candidates # <<>>
        /\ \A a, b \in 1..Len(plan.candidates) :
              a # b => plan.candidates[a] # plan.candidates[b]

\* build_fetch_plan has returned for a raw URL that is not empty and has no
\* blank around it (upload_excel passes what extract_url_from_cell trimmed)
PlanReturned ==
    /\ "build_fetch_plan" \in called
    /\ arg_url # <<>> /\ Strip(arg_url) = arg_url

\* C11: for every non-empty raw URL, in every branch, build_fetch_plan keeps
\* the raw URL unaltered: display is the raw string, and the first candidate is
\* that same string.
C11_RawUrlPreserved ==
    PlanReturned =>
        /\ ret_plan.display = arg_url
        /\ ret_plan.candidates # <<>>
        /\ ret_plan.candidates[1] = arg_url

\* the pieces of the query of url (between the first "?" and the first "#"),
\* and url with its query replaced by the pieces kept
QueryStart(url) == Find(url, {"?"})

FragmentStart(url) == Find(url, {"#"})

QueryPieces(url) ==
    LET q == QueryStart(url)
        f == FragmentStart(url)
        e == IF f = 0 THEN Len(url) ELSE f - 1
    IN  IF q = 0 \/ q >= e THEN <<>> ELSE Split(SubSeq(url, q + 1, e), "&")

WithQueryPieces(url, kept) ==
    LET q == QueryStart(url)
        f == FragmentStart(url)
    IN  SubSeq(url, 1, q - 1)
        \o (IF kept = <<>> THEN <<>> ELSE <<"?">> \o Join(kept, "&"))
        \o (IF f = 0 THEN <<>> ELSE SubSeq(url, f, Len(url)))

\* a piece name=value, or a bare name, whose name is a tracking parameter
IsTrackingPiece(piece) ==
    /\ piece # <<>>
    /\ piece[1] \in {"utm_source", "utm_medium", "utm_campaign", "utm_term", "utm_content",
                     "fbclid", "gclid"}
    /\ Len(piece) >= 2 => piece[2] = "="

\* C12: for a URL that parses and whose host is neither Drive nor Dropbox, the
\* candidates are [display] when the query holds no tracking parameter, and
\* otherwise [display, stripped], stripped being the URL without its tracking
\* parameters and with every other parameter kept as it was, in place.
C12_ExactlyTrackingRemoved ==
    /\ PlanReturned
    /\ \A i \in 1..Len(arg_url) :
          arg_url[i] \notin {"drive.google.com", "www.dropbox.com", "["}
    =>
    LET pieces == QueryPieces(arg_url)
        kept == SelectSeq(pieces, LAMBDA x : ~IsTrackingPiece(x))
    IN  IF kept = pieces
        THEN ret_plan.candidates = <<ret_plan.display>>
        ELSE ret_plan.candidates = <<ret_plan.display, WithQueryPieces(arg_url, kept)>>

\* position a comes before position b in row-major order, or is b
RowMajorLeq(a, b) == a[1] < b[1] \/ (a[1] = b[1] /\ a[2] <= b[2])

\* C13: find_final_col returns the row-major first position, among the rows
\* 1..min(max_row, 500), of a cell whose value is a string that, trimmed and
\* lower-cased, starts with "final"; later such cells do not matter; it returns
\* None when those rows hold no such cell, also when one lies below row 500.
C13_RowMajorFirstHeader ==
    "find_final_col" \in called =>
        LET hits == MarkerCells(arg_ws)
        IN  /\ hits = {} <=> ret_loc = <<>>
            /\ hits # {} =>
                  /\ ret_loc \in hits
                  /\ ret_loc[1] <= max_row(arg_ws)
                  /\ \A o \in hits : RowMajorLeq(ret_loc, o)

\* a sheet with a text that is no header before the first header, a second
\* header after it and a third below the scan bound; the first is returned
C13_Witness ==
    /\ "find_final_col" \in called
    /\ ret_loc = <<1, 2>>
    /\ <<1, 1>> \in DOMAIN arg_ws.cells /\ ~IsFinalHeader(arg_ws.cells[<<1, 1>>])
    /\ <<2, 1>> \in MarkerCells(arg_ws)
    /\ <<MAX_SCAN_ROWS + 1, 1>> \in DOMAIN arg_ws.cells
    /\ IsFinalHeader(arg_ws.cells[<<MAX_SCAN_ROWS + 1, 1>>])

\* what a login for identity e would be answered now
LoginAnswer(e) == LoginStatus(e, DYN_ALLOWED, ACTIVE_SESSIONS)

\* C14: a session lives no longer than its token: a cookie whose token has
\* expired or whose signature does not verify is rejected, and an identity
\* none of whose cookies is accepted holds no session, so a login for it, if it
\* is still allowlisted, is accepted and not answered with a conflict.
C14_ExpiredSessionFreesSlot ==
    /\ \A k \in Presentable : ~TokenLoads(k, now) => ~_load_session(k)
    /\ \A e \in Emails :
          Accepted(e) = {} =>
              /\ e \notin DOMAIN ACTIVE_SESSIONS
              /\ e \in DYN_ALLOWED => LoginAnswer(e) = 200

\* the cookies of sessions that a revocation ended
RevokedCookies == {k \in issued : [sid |-> k.sid, by |-> "revoke"] \in ended}

\* C15: a cookie of a session ended by admin_revoke is rejected by require_user
\* in every later state, also after the identity was allowed again and logged
\* in afresh; a revocation takes the identity off the allowlist and ends its
\* session; only admin_allow puts an identity back on the allowlist; and a
\* login of an identity that is not on it is answered 403 and changes nothing.
C15_RevokedStaysRejected ==
    /\ [](\A k \in RevokedCookies : require_user(k) = "" /\ ~_load_session(k))
    /\ [][ /\ \A raw \in RawEmails :
                 HasAt(NormEmail(raw)) /\ admin_revoke("ok", raw) =>
                     /\ NormEmail(raw) \notin DYN_ALLOWED'
                     /\ NormEmail(raw) \notin DOMAIN ACTIVE_SESSIONS'
                     /\ \A k \in issued : k.email = NormEmail(raw) => k.sid \in {x.sid : x \in ended'}
           /\ \A e \in Emails :
                 e \notin DYN_ALLOWED /\ e \in DYN_ALLOWED' =>
                     \E raw \in RawEmails : NormEmail(raw) = e /\ admin_allow("ok", raw)
           /\ \A raw \in RawEmails :
                 BagIn(raw, pending) /\ HasAt(NormEmail(raw))
                 /\ NormEmail(raw) \notin DYN_ALLOWED /\ LoginHandle(raw) =>
                     /\ loginResp' = 403
                     /\ ACTIVE_SESSIONS' = ACTIVE_SESSIONS /\ issued' = issued
         ]_vars

\* an identity whose session was revoked has been allowed again and has logged
\* in afresh; its earlier cookie, well signed and not expired, is rejected
C15_Witness ==
    \E k \in RevokedCookies :
        /\ TokenLoads(k, now) /\ require_user(k) = ""
        /\ k.email \in DYN_ALLOWED
        /\ k.email \in DOMAIN ACTIVE_SESSIONS /\ ACTIVE_SESSIONS[k.email] # k.sid
        /\ Accepted(k.email) # {}

\* C20: every identity with an entry in ACTIVE_SESSIONS is on the allowlist
\* DYN_ALLOWED, in every reachable state of the session gate.
C20_ActiveImpliesAllowed ==
    \A e \in DOMAIN ACTIVE_SESSIONS : e \in DYN_ALLOWED

\* one identity holds a session while another, whose session a revocation
\* ended, is off the allowlist and holds none
C20_Witness ==
    /\ \E e \in DOMAIN ACTIVE_SESSIONS : e \in DYN_ALLOWED
    /\ \E k \in RevokedCookies :
          k.email \notin DYN_ALLOWED /\ k.email \notin DOMAIN ACTIVE_SESSIONS

\* the permits of the sheet's semaphore that are held
HeldPermits == SEM_CAPACITY - sem

\* C16: while the requests of a sheet run, a permit is held for exactly each
\* request in flight: a task that waits for its first or a later candidate, or
\* has returned, holds none, whatever its requests ended in; the permits held
\* are between 0 and 10, and none is held once every task has returned.
C16_PermitPerRequestInFlight ==
    pc \in {"gather", "walk"} =>
        /\ HeldPermits = InFlight
        /\ HeldPermits >= 0 /\ HeldPermits <= SEM_CAPACITY
        /\ (\A i \in 1..Len(tasks) : tasks[i].st = "done") => HeldPermits = 0

\* every task of a sheet has returned and no permit is held, after requests
\* that ended in a success, a non-success status, a network error and a timeout
C16_Witness ==
    /\ pc = "gather" /\ tasks # <<>>
    /\ \A i \in 1..Len(tasks) : tasks[i].st = "done"
    /\ HeldPermits = 0
    /\ \A o \in {"jpeg_rgb", "http_error", "net_error", "timeout"} :
          \E i \in 1..Len(tasks) : \E j \in 1..Len(tasks[i].outs) : tasks[i].outs[j] = o

\* plan p of logged sheet i ended in a terminal state: succeeded, with the
\* content of the candidate tried last, or exhausted, with every candidate
\* tried and none successful; no candidate was tried twice
Terminal(i, p) ==
    LET c == log[i].plans[p].candidates
        o == log[i].outs[p]
    IN  /\ Len(o) >= 1 /\ Len(o) <= Len(c)
        /\ \/ IsSuccess(o[Len(o)]) /\ log[i].results[p] = Content(c[Len(o)], o[Len(o)])
           \/ /\ Len(o) = Len(c) /\ \A j \in 1..Len(o) : ~IsSuccess(o[j])
              /\ log[i].results[p] = NoPayload

\* C17: if every request that is issued ends and the scheduler is fair, the
\* upload finishes; every fetch_one that gather started returns (none waits
\* for a permit for ever); and in the finished upload every sheet was gone
\* through and every plan is terminal, succeeded or exhausted, with no
\* candidate tried more than once.
C17_EveryPlanTerminates ==
    /\ <>(pc = "done")
    /\ \A i \in 1..MaxPlans :
          (pc = "gather" /\ i <= Len(tasks))
              ~> (pc = "gather" /\ i <= Len(tasks) /\ tasks[i].st = "done")
    /\ [](pc = "done" /\ status = 200 =>
              /\ Len(log) = Len(Sheets)
              /\ \A i \in 1..Len(log) : \A p \in 1..Len(log[i].plans) : Terminal(i, p))

\* a finished upload of a sheet with more plans than permits, so that a task
\* had to wait for the gate
C17_Witness ==
    /\ pc = "done" /\ status = 200
    /\ \E i \in 1..Len(log) :
          /\ Len(log[i].plans) > SEM_CAPACITY
          /\ \A p \in 1..Len(log[i].plans) : Terminal(i, p)

\* the number of plans of the first k logged sheets
RECURSIVE PlansUpTo(_)
PlansUpTo(k) == IF k = 0 THEN 0 ELSE PlansUpTo(k - 1) + Len(log[k].plans)

\* the image entries of the archive
Images == SelectSeq(zf, LAMBDA e : e.path.name = "final_image")

\* C18: an upload without a whole-request fault (session, file) ends with
\* status 200 whatever happened to its items; in a completed upload every
\* sheet was gone through, every sheet has as many image entries and failure
\* records together as it has plans, and there are no other image entries
\* and no other failure records.
C18_EveryPlanAccountedFor ==
    /\ pc \in {"sheets", "gather", "walk"} => status = 0
    /\ pc = "done" /\ status # 200 => (SessionFault \/ FileFault) /\ log = <<>>
    /\ pc = "done" /\ status = 200 =>
          /\ Len(log) = Len(Sheets)
          /\ \A i \in 1..Len(log) :
                Len(EntriesBy(i)) + Len(FailedOf(i)) = Len(log[i].plans)
          /\ Len(Images) + Len(failed) = PlansUpTo(Len(log))

\* a completed upload where, in one sheet, a plan exhausted its candidates,
\* another fetched a payload that is no image, a later plan gave an image,
\* and a later sheet gave an image too
C18_Witness ==
    /\ pc = "done" /\ status = 200
    /\ \E i \in 1..Len(log) :
          /\ \E p, q, r \in 1..Len(log[i].plans) :
                /\ log[i].results[p] = NoPayload
                /\ log[i].results[q] # NoPayload /\ ~Decodes(log[i].results[q])
                /\ p < r /\ q < r
                /\ log[i].results[r] # NoPayload /\ Decodes(log[i].results[r])
          /\ \E j \in (i + 1)..Len(log) : Len(EntriesBy(j)) >= 1

\* C19: no two entries of the archive have the same path.
C19_ArchivePathsDistinct ==
    \A a, b \in 1..Len(zf) : a # b => zf[a].path # zf[b].path

=============================================================================
